---- MODULE Spec2Model ----
(***************************************************************************)
(* The grouped weighted aggregation of docs/recipes/recipe03.ipynb (EITC   *)
(* recipients and average EITC by AGI category) and recipe04.ipynb         *)
(* (response in charitable giving by earnings group).                      *)
(*                                                                         *)
(* A run loads a dataframe of filing units, cuts it into table rows by a   *)
(* list of bin edges, groups it by table row, prints one line per group    *)
(* and an ALL line.  Numbers are numpy float64 values; the model keeps     *)
(* them as exact rationals with the IEEE special values nan and +-inf, so  *)
(* rounding is not modelled and signed zeros are not told apart.           *)
(***************************************************************************)
EXTENDS Integers, Sequences, FiniteSets, TLC

\* ------------------------------------------------------------ bounds
\* at most MaxRecs filing units in the dataframe
MaxRecs == 2
\* sampling weights s006 are 0..MaxWeight
MaxWeight == 2
\* a list of bin edges has 3..MaxEdges entries (2..MaxEdges-1 bins)
MaxEdges == 4

\* ------------------------------------------------- program constants
\* the sentinel edges -9e99 and 9e99, scaled to the model's key range
NEG_SENTINEL == -999
POS_SENTINEL == 999
\* recips, funits: sum * 1e-6
COUNT_SCALE_DEN == 1000000
\* amount, grp_response, grp_baseline: sum * 1e-9
AMOUNT_SCALE_DEN == 1000000000
\* pct_response = 100. * response / baseline
HUNDRED == 100

\* ------------------------------------------------------ input values
\* bin keys (c00100 in recipe 3, e00200 in recipe 4); 50 is an interior edge
Keys == {10, 50, 60}
\* values a bin edge can take
Edges == {NEG_SENTINEL, 50, 60, POS_SENTINEL}
\* the outcome quantity (eitc in recipe 3, e19800 in recipe 4)
Quantities == {-3, 0, 3, 5}
\* the per-unit response behresp.quantity_response returns (recipe 4)
Responses == {0, 5}

\* ------------------------------------------------------------ floats
\* A float is [k, n, d, np]: k = "fin" is the number n/d in lowest terms
\* (d > 0), k = "nan" is not-a-number, k = "inf" is the infinity of sign n;
\* np tells a numpy.float64 from a Python float.
Abs(x) == IF x < 0 THEN -x ELSE x

Sign(i) == IF i > 0 THEN 1 ELSE IF i < 0 THEN -1 ELSE 0

RECURSIVE GCD(_, _)
GCD(a, b) == IF b = 0 THEN a ELSE GCD(b, a % b)

\* the numpy.float64 n/d, d > 0
Rat(n, d) ==
  LET g == GCD(Abs(n), d)
  IN [k |-> "fin", n |-> n \div g, d |-> d \div g, np |-> TRUE]

\* the Python float literal n/d (0., 1e-6, 1e-9, 100.)
PyFloat(n, d) == [Rat(n, d) EXCEPT !.np = FALSE]

\* np.nan, a Python float
NaN == [k |-> "nan", n |-> 0, d |-> 0, np |-> FALSE]

\* a name not yet bound by the cell
Unset == [k |-> "unset", n |-> 0, d |-> 0, np |-> FALSE]

IsNaN(x) == x.k = "nan"
IsInf(x) == x.k = "inf"
IsZero(x) == x.k = "fin" /\ x.n = 0

FSign(x) == IF x.k = "nan" THEN 0 ELSE Sign(x.n)

\* the special value of sign-or-nan kind, as the result of a op b
Special(kind, s, a, b) ==
  [k |-> kind, n |-> s, d |-> 0, np |-> a.np \/ b.np]

\* a + b
FAdd(a, b) ==
  IF a.k = "nan" \/ b.k = "nan" THEN Special("nan", 0, a, b)
  ELSE IF a.k = "inf" /\ b.k = "inf"
       THEN (IF a.n = b.n THEN Special("inf", a.n, a, b)
             ELSE Special("nan", 0, a, b))
  ELSE IF a.k = "inf" THEN Special("inf", a.n, a, b)
  ELSE IF b.k = "inf" THEN Special("inf", b.n, a, b)
  ELSE LET l == (a.d \div GCD(a.d, b.d)) * b.d
       IN [Rat(a.n * (l \div a.d) + b.n * (l \div b.d), l)
             EXCEPT !.np = a.np \/ b.np]

\* a * b
FMul(a, b) ==
  IF a.k = "nan" \/ b.k = "nan" THEN Special("nan", 0, a, b)
  ELSE IF a.k = "inf" \/ b.k = "inf"
       THEN (IF FSign(a) * FSign(b) = 0 THEN Special("nan", 0, a, b)
             ELSE Special("inf", FSign(a) * FSign(b), a, b))
  ELSE LET g1 == GCD(Abs(a.n), b.d)
           g2 == GCD(Abs(b.n), a.d)
       IN [Rat((a.n \div g1) * (b.n \div g2), (a.d \div g2) * (b.d \div g1))
             EXCEPT !.np = a.np \/ b.np]

\* a / b raises ZeroDivisionError: a zero divisor and two Python floats
DivRaises(a, b) == IsZero(b) /\ ~a.np /\ ~b.np

\* a / b when it does not raise: with a numpy.float64 operand a zero
\* divisor gives nan (0/0) or an infinity (x/0) and a RuntimeWarning
FDiv(a, b) ==
  IF a.k = "nan" \/ b.k = "nan" THEN Special("nan", 0, a, b)
  ELSE IF a.k = "inf" /\ b.k = "inf" THEN Special("nan", 0, a, b)
  ELSE IF a.k = "inf"
       THEN Special("inf", a.n * (IF FSign(b) < 0 THEN -1 ELSE 1), a, b)
  ELSE IF b.k = "inf" THEN [Rat(0, 1) EXCEPT !.np = a.np \/ b.np]
  ELSE IF b.n = 0
       THEN (IF a.n = 0 THEN Special("nan", 0, a, b)
             ELSE Special("inf", Sign(a.n), a, b))
  ELSE FMul(a, [k |-> "fin", n |-> Sign(b.n) * b.d, d |-> Abs(b.n),
                np |-> b.np])

\* a > 0 (False for nan)
FPositive(a) == a.k # "nan" /\ a.n > 0

\* --------------------------------------------------------- dataframe
\* all sequences over S of length lo..hi
SeqsOf(S, lo, hi) == UNION {[1..m -> S] : m \in lo..hi}

\* one filing unit: sampling weight, bin key, outcome quantity, response
RecordSet(r) ==
  [s006 : 0..MaxWeight, key : Keys, qty : Quantities,
   response : IF r = 4 THEN Responses ELSE {0}]

\* the lists of bin edges a run can be given (SOI_AGI_BINS, earnings_bins):
\* the strictly increasing lists, covering every key or not, and the lists
\* with one adjacent pair of edges out of order or repeated
EdgeLists ==
  {b \in SeqsOf(Edges, 3, MaxEdges) :
     Cardinality({j \in 1..(Len(b) - 1) : ~(b[j] < b[j + 1])}) <= 1}

RECURSIVE Sum(_)
Sum(s) == IF s = <<>> THEN 0 ELSE s[1] + Sum(Tail(s))

\* Series.sum() of an integer-valued column, as a float
SeriesSum(col) == Rat(Sum(col), 1)

\* pd.cut: "bins must increase monotonically", "Bin edges must be unique"
BinsIncrease(b) == \A j \in 1..(Len(b) - 1) : b[j] < b[j + 1]

\* numpy searchsorted(b, x, side='right') on a sorted b, by bisection
RECURSIVE SearchSortedRight(_, _, _, _)
SearchSortedRight(b, x, lo, hi) ==
  IF lo >= hi THEN lo
  ELSE LET mid == (lo + hi) \div 2
       IN IF x < b[mid + 1]
          THEN SearchSortedRight(b, x, lo, mid)
          ELSE SearchSortedRight(b, x, mid + 1, hi)

\* table_row of a unit no bin holds (a missing category)
NA == 0

\* pd.cut(x, b, right=False): the number of the bin [b[i], b[i+1]) of x
Cut(x, b) ==
  LET ids == SearchSortedRight(b, x, 0, Len(b))
  IN IF ids = 0 \/ ids = Len(b) THEN NA ELSE ids

VARIABLES
  recipe,        \* 3 or 4: which notebook runs
  vardf,         \* the dataframe (vardf in recipe 3, vdf in recipe 4)
  bins,          \* the bin edges (tc.SOI_AGI_BINS, earnings_bins)
  table_row,     \* the column add_income_table_row_variable adds
  pc,            \* where the run is
  passes,        \* the passes of the loop over gbydf that have completed
  grp_interval,  \* the interval of the group the loop was last handed
  idx,           \* the counter of the loop (recipe 4: picks the elasticities)
  price_elasticity, income_elasticity,
                 \* recipe 4: the elasticities quantity_response was last given
  rows,          \* the lines printed so far
  tot_recips, tot_amount, recips, amount, avg,
  tot_funits, tot_response, tot_baseline,
  funits, grp_response, grp_baseline, pct_response

inputs == <<recipe, vardf, bins>>
vars3 == <<tot_recips, tot_amount, recips, amount, avg>>
vars4 == <<tot_funits, tot_response, tot_baseline,
           funits, grp_response, grp_baseline, pct_response,
           price_elasticity, income_elasticity>>
vars == <<recipe, vardf, bins, table_row, pc, passes, grp_interval, idx,
          price_elasticity, income_elasticity, rows,
          tot_recips, tot_amount, recips, amount, avg,
          tot_funits, tot_response, tot_baseline,
          funits, grp_response, grp_baseline, pct_response>>

\* (the groups of a groupby that keeps only the categories observed)
NumGroupsObserved == Cardinality({table_row[j] : j \in 1..Len(vardf)} \ {NA})
\* the number of groups gbydf iterates: one per category, empty or not
NumGroups == Len(bins) - 1

\* (the table rows a groupby hands out when it skips the empty categories)
GroupKeysObserved ==
  LET S == {table_row[j] : j \in 1..Len(vardf)} \ {NA}
  IN [i \in 1..Cardinality(S) |->
        CHOOSE k \in S : Cardinality({m \in S : m < k}) = i - 1]
\* the table rows gbydf hands out, in order: every category, empty or not
GroupKeys == [i \in 1..NumGroups |-> i]

\* the pandas Interval of table row k: <<left, right>>
Interval(k) == <<bins[k], bins[k + 1]>>

\* lst[i] of a Python list, i >= 0: IndexError unless i < len(lst)
InRange(lst, i) == i < Len(lst)
Item(lst, i) == lst[i + 1]

\* idx += 1
NextIdx(i) == i + 1

\* the elasticity of each earnings group, in declared order
PRICE_ELASTICITY == <<PyFloat(-1, 10), PyFloat(-4, 10)>>
INCOME_ELASTICITY == <<PyFloat(1, 10), PyFloat(1, 10)>>

RECURSIVE SelectFirst(_, _, _)
SelectFirst(df, tr, i) ==
  IF df = <<>> THEN <<>>
  ELSE IF tr[1] = i THEN <<df[1]>>
       ELSE SelectFirst(Tail(df), Tail(tr), i)

RECURSIVE Select(_, _, _)
Select(df, tr, i) ==
  IF df = <<>> THEN <<>>
  ELSE IF tr[1] = i
       THEN <<df[1]>> \o Select(Tail(df), Tail(tr), i)
       ELSE Select(Tail(df), Tail(tr), i)

\* groupby('table_row'): the units of category i, in dataframe order;
\* a unit whose table_row is missing is in no group
Group(i) == Select(vardf, table_row, i)

\* grp[grp['eitc'] > 0]
PositiveQty(grp) == SelectSeq(grp, LAMBDA u : u.qty > 0)

S006(grp) == [j \in 1..Len(grp) |-> grp[j].s006]
QtyTimesS006(grp) == [j \in 1..Len(grp) |-> grp[j].qty * grp[j].s006]
ResponseTimesS006(grp) == [j \in 1..Len(grp) |-> grp[j].response * grp[j].s006]

CountScale == PyFloat(1, COUNT_SCALE_DEN)
AmountScale == PyFloat(1, AMOUNT_SCALE_DEN)

\* recipe 3
Recips(grp) == FMul(SeriesSum(S006(PositiveQty(grp))), CountScale)
Amount(grp) == FMul(SeriesSum(QtyTimesS006(grp)), AmountScale)
AvgUnguarded(a, r) == FDiv(a, r)
Avg(a, r) == IF FPositive(r) THEN FDiv(a, r) ELSE NaN
AllAvgGuardedZero(ta, tr) == IF FPositive(tr) THEN FDiv(ta, tr) ELSE PyFloat(0, 1)
AllAvg(ta, tr) == FDiv(ta, tr)

\* recipe 4
FunitsAmountScale(grp) == FMul(SeriesSum(S006(grp)), AmountScale)
Funits(grp) == FMul(SeriesSum(S006(grp)), CountScale)
GrpResponse(grp) == FMul(SeriesSum(ResponseTimesS006(grp)), AmountScale)
GrpBaseline(grp) == FMul(SeriesSum(QtyTimesS006(grp)), AmountScale)
PctResponse(resp, base) == FDiv(FMul(PyFloat(HUNDRED, 1), resp), base)

\* tot += x
Accumulate(tot, x) == FAdd(tot, x)

\* '[{:.8g}, {:.8g})'.format(grp_interval.left, grp_interval.right)
GLabel(i) == <<"[", bins[i], ", ", bins[i + 1], ")">>

Line(label, cols) == [label |-> label, cols |-> cols]

\* ------------------------------------------------------ state machine
Init ==
  /\ recipe \in {3, 4}
  /\ vardf \in SeqsOf(RecordSet(recipe), 0, MaxRecs)
  /\ bins \in EdgeLists
  \* recipe 4 declares one elasticity for each of its groups
  /\ recipe = 4 => Len(bins) = Len(PRICE_ELASTICITY) + 1
  /\ table_row = <<>>
  /\ pc = "cut"
  /\ passes = 0
  /\ grp_interval = Unset
  /\ idx = Unset /\ price_elasticity = Unset /\ income_elasticity = Unset
  /\ rows = <<>>
  /\ tot_recips = Unset /\ tot_amount = Unset
  /\ recips = Unset /\ amount = Unset /\ avg = Unset
  /\ tot_funits = Unset /\ tot_response = Unset /\ tot_baseline = Unset
  /\ funits = Unset /\ grp_response = Unset /\ grp_baseline = Unset
  /\ pct_response = Unset

\* tc.add_income_table_row_variable(vardf, key, bins), then groupby:
\* pd.cut raises ValueError on edges that do not strictly increase
AddIncomeTableRowVariable ==
  /\ pc = "cut"
  /\ IF BinsIncrease(bins)
     THEN /\ table_row' = [j \in 1..Len(vardf) |-> Cut(vardf[j].key, bins)]
          /\ pc' = "head"
     ELSE /\ pc' = "ValueError"
          /\ UNCHANGED table_row
  /\ UNCHANGED <<inputs, passes, grp_interval, idx, rows, vars3, vars4>>

\* recipe 3: print the column heads, zero the totals
Head3 ==
  /\ recipe = 3 /\ pc = "head"
  /\ rows' = Append(rows, Line(<<"AGI Category">>, <<"Num(#M)", "Avg($K)">>))
  /\ tot_recips' = PyFloat(0, 1)
  /\ tot_amount' = PyFloat(0, 1)
  /\ idx' = 0
  /\ passes' = 0
  /\ pc' = "loop"
  /\ UNCHANGED <<inputs, table_row, grp_interval, recips, amount, avg, vars4>>

\* recipe 3: one pass of the loop over gbydf
Loop3 ==
  /\ recipe = 3 /\ pc = "loop" /\ passes < Len(GroupKeys)
  /\ LET k == GroupKeys[passes + 1]
         grp == Group(k)
     IN /\ grp_interval' = Interval(k)
        /\ recips' = Recips(grp)
        /\ tot_recips' = Accumulate(tot_recips, recips')
        /\ amount' = Amount(grp)
        /\ tot_amount' = Accumulate(tot_amount, amount')
        /\ avg' = Avg(amount', recips')
        /\ rows' = Append(rows, Line(GLabel(k), <<recips', avg'>>))
  /\ idx' = NextIdx(idx)
  /\ passes' = passes + 1
  /\ UNCHANGED <<inputs, table_row, pc, vars4>>

\* recipe 3: the ALL line after the loop; the division is not guarded
All3 ==
  /\ recipe = 3 /\ pc = "loop" /\ passes = Len(GroupKeys)
  /\ IF DivRaises(tot_amount, tot_recips)
     THEN /\ pc' = "ZeroDivisionError"
          /\ UNCHANGED <<avg, rows>>
     ELSE /\ avg' = AllAvg(tot_amount, tot_recips)
          /\ rows' = Append(rows, Line(<<"ALL">>, <<tot_recips, avg'>>))
          /\ pc' = "done"
  /\ UNCHANGED <<inputs, table_row, passes, grp_interval, idx, tot_recips,
                 tot_amount, recips, amount, vars4>>

\* recipe 4: print the title and the column heads, zero the totals
Head4 ==
  /\ recipe = 4 /\ pc = "head"
  /\ rows' = rows \o
       << Line(<<"">>, <<>>),
          Line(<<"Response in Charitable Giving by Earnings Group">>, <<>>),
          Line(<<"Earnings Group">>, <<"Num(#M)", "Resp($B)", "Resp(%)">>) >>
  /\ tot_funits' = PyFloat(0, 1)
  /\ tot_response' = PyFloat(0, 1)
  /\ tot_baseline' = PyFloat(0, 1)
  /\ idx' = 0
  /\ passes' = 0
  /\ pc' = "loop"
  /\ UNCHANGED <<inputs, table_row, grp_interval, funits, grp_response,
                 grp_baseline, pct_response, price_elasticity,
                 income_elasticity, vars3>>

\* recipe 4: one pass of the loop over gbydf; PRICE_ELASTICITY[idx] and
\* INCOME_ELASTICITY[idx] raise IndexError past the end of the lists
Loop4 ==
  /\ recipe = 4 /\ pc = "loop" /\ passes < Len(GroupKeys)
  /\ LET k == GroupKeys[passes + 1]
         grp == Group(k)
     IN /\ grp_interval' = Interval(k)
        /\ funits' = Funits(grp)
        /\ tot_funits' = Accumulate(tot_funits, funits')
        /\ IF ~InRange(PRICE_ELASTICITY, idx) \/ ~InRange(INCOME_ELASTICITY, idx)
           THEN /\ pc' = "IndexError"
                /\ UNCHANGED <<price_elasticity, income_elasticity,
                               grp_response, tot_response, grp_baseline,
                               tot_baseline, pct_response, rows, idx, passes>>
           ELSE /\ price_elasticity' = Item(PRICE_ELASTICITY, idx)
                /\ income_elasticity' = Item(INCOME_ELASTICITY, idx)
                /\ grp_response' = GrpResponse(grp)
                /\ tot_response' = Accumulate(tot_response, grp_response')
                /\ grp_baseline' = GrpBaseline(grp)
                /\ tot_baseline' = Accumulate(tot_baseline, grp_baseline')
                /\ IF DivRaises(grp_response', grp_baseline')
                   THEN /\ pc' = "ZeroDivisionError"
                        /\ UNCHANGED <<pct_response, rows, idx, passes>>
                   ELSE /\ pct_response' =
                             PctResponse(grp_response', grp_baseline')
                        /\ rows' = Append(rows,
                                          Line(GLabel(k),
                                               <<funits', grp_response',
                                                 pct_response'>>))
                        /\ idx' = NextIdx(idx)
                        /\ passes' = passes + 1
                        /\ pc' = pc
  /\ UNCHANGED <<inputs, table_row, vars3>>

\* recipe 4: the ALL line after the loop
All4 ==
  /\ recipe = 4 /\ pc = "loop" /\ passes = Len(GroupKeys)
  /\ IF DivRaises(tot_response, tot_baseline)
     THEN /\ pc' = "ZeroDivisionError"
          /\ UNCHANGED <<pct_response, rows>>
     ELSE /\ pct_response' = PctResponse(tot_response, tot_baseline)
          /\ rows' = Append(rows, Line(<<"ALL">>, <<tot_funits, tot_response,
                                                    pct_response'>>))
          /\ pc' = "done"
  /\ UNCHANGED <<inputs, table_row, passes, grp_interval, idx,
                 price_elasticity, income_elasticity, tot_funits,
                 tot_response, tot_baseline, funits, grp_response,
                 grp_baseline, vars3>>

Next ==
  \/ AddIncomeTableRowVariable
  \/ Head3
  \/ Loop3
  \/ All3
  \/ Head4
  \/ Loop4
  \/ All4

Spec == Init /\ [][Next]_vars

\* ------------------------------------------------- reference values
\* the units of the dataframe, by position
Units == 1..Len(vardf)

\* the units the cut assigned to bin i
Assigned(i) == {j \in Units : table_row[j] = i}

\* the units with a strictly positive quantity
Positive == {j \in Units : vardf[j].qty > 0}

Weight == [j \in Units |-> vardf[j].s006]
WeightedQty == [j \in Units |-> vardf[j].s006 * vardf[j].qty]
WeightedResponse == [j \in Units |-> vardf[j].s006 * vardf[j].response]

RECURSIVE SetSum(_, _)
SetSum(S, f) ==
  IF S = {} THEN 0
  ELSE LET j == CHOOSE x \in S : TRUE
       IN f[j] + SetSum(S \ {j}, f)

\* x is the finite float total / den
IsScaled(x, total, den) ==
  /\ x.k = "fin"
  /\ x.d > 0
  /\ den % x.d = 0
  /\ x.n * (den \div x.d) = total

\* the lines printed before the first bin line
HeadLen == IF recipe = 3 THEN 1 ELSE 3

\* the line printed for bin i
BinLine(i) == rows[HeadLen + i]

\* the loop has run for bin passes and its names hold that bin's values
InLoopBody == pc \in {"loop", "done"} /\ passes >= 1

\* the scenario of the specification: two units, edges [-inf, 50, inf]
ScenarioInput ==
  /\ Len(vardf) = 2
  /\ vardf[1].s006 = 1 /\ vardf[1].key = 10 /\ vardf[1].qty = 5
  /\ vardf[2].s006 = 2 /\ vardf[2].key = 60 /\ vardf[2].qty = 3
  /\ bins = <<NEG_SENTINEL, 50, POS_SENTINEL>>

\* the count and the quantity amount of the bin just processed
BinCount == IF recipe = 3 THEN recips ELSE funits
BinAmount == IF recipe = 3 THEN amount ELSE grp_baseline
TotCount == IF recipe = 3 THEN tot_recips ELSE tot_funits
TotAmount == IF recipe = 3 THEN tot_amount ELSE tot_baseline

\* ------------------------------------------------------------ claims
\* what every loop computes for the bin just processed, whichever recipe:
\* the amounts are the weighted sums over the units assigned to the bin
BinAmounts ==
  LET A == Assigned(passes)
  IN /\ IsScaled(BinAmount, SetSum(A, WeightedQty), AMOUNT_SCALE_DEN)
     /\ recipe = 4 =>
          /\ IsScaled(grp_response, SetSum(A, WeightedResponse),
                      AMOUNT_SCALE_DEN)
          /\ BinLine(passes).cols[2] = grp_response
     /\ BinLine(passes).cols[1] = BinCount

\* the scenario's values, in the units of the code's scales 1e-6 and 1e-9
ScenarioValues ==
  /\ passes = 1 => /\ IsScaled(BinCount, 1, COUNT_SCALE_DEN)
                /\ IsScaled(BinAmount, 5, AMOUNT_SCALE_DEN)
  /\ passes = 2 => /\ IsScaled(BinCount, 2, COUNT_SCALE_DEN)
                /\ IsScaled(BinAmount, 6, AMOUNT_SCALE_DEN)
  /\ pc = "done" => /\ IsScaled(TotCount, 3, COUNT_SCALE_DEN)
                    /\ IsScaled(TotAmount, 11, AMOUNT_SCALE_DEN)

\* C1 as stated: in both recipes the count of a bin's line is the sum of
\* the weights of all units assigned to the bin, times the count scale,
\* and the amount is the sum of weight * quantity, times the amount scale.
C1_CountIsAllWeights ==
  InLoopBody =>
    /\ IsScaled(BinCount, SetSum(Assigned(passes), Weight), COUNT_SCALE_DEN)
    /\ BinAmounts
    /\ ScenarioInput => ScenarioValues

\* C1 amended: the amounts are as stated in both recipes; the count is the
\* sum of the weights of all units of the bin in recipe 4 (funits) and of
\* the units of the bin with a quantity > 0 in recipe 3 (recips); the
\* scenario gives counts 1, 2, total 3 and amounts 5, 6, total 11 in units
\* of the scales 1e-6 and 1e-9.
C1_BinRowSums ==
  InLoopBody =>
    /\ recipe = 4 =>
         IsScaled(funits, SetSum(Assigned(passes), Weight), COUNT_SCALE_DEN)
    /\ recipe = 3 =>
         IsScaled(recips, SetSum(Assigned(passes) \cap Positive, Weight),
                  COUNT_SCALE_DEN)
    /\ BinAmounts
    /\ ScenarioInput => ScenarioValues

\* the scenario has run to its end in recipe 4
C1_Witness ==
  /\ recipe = 4 /\ pc = "done" /\ ScenarioInput
  /\ IsScaled(tot_funits, 3, COUNT_SCALE_DEN)
  /\ IsScaled(tot_baseline, 11, AMOUNT_SCALE_DEN)

\* every key lies in the range the edges span
Covers ==
  \A j \in Units : bins[1] <= vardf[j].key /\ vardf[j].key < bins[Len(bins)]

\* the line printed last
LastLine == rows[Len(rows)]

\* the ALL line carries the totals, and the totals are the sums over all
\* units of the dataframe
AllEqualsDirectTotals ==
  /\ recipe = 3 =>
       /\ IsScaled(tot_recips, SetSum(Positive, Weight), COUNT_SCALE_DEN)
       /\ IsScaled(tot_amount, SetSum(Units, WeightedQty), AMOUNT_SCALE_DEN)
       /\ LastLine.cols[1] = tot_recips
  /\ recipe = 4 =>
       /\ IsScaled(tot_funits, SetSum(Units, Weight), COUNT_SCALE_DEN)
       /\ IsScaled(tot_response, SetSum(Units, WeightedResponse),
                   AMOUNT_SCALE_DEN)
       /\ IsScaled(tot_baseline, SetSum(Units, WeightedQty),
                   AMOUNT_SCALE_DEN)
       /\ LastLine.cols[1] = tot_funits
       /\ LastLine.cols[2] = tot_response

AllEqualsDirectTotalsWhenCovered ==
  (pc = "done" /\ Covers) => AllEqualsDirectTotals

\* the bins whose half-open interval holds the key of unit j
BinsHolding(j) ==
  {i \in 1..(Len(bins) - 1) :
     bins[i] <= vardf[j].key /\ vardf[j].key < bins[i + 1]}

Min(S) == CHOOSE x \in S : \A y \in S : x <= y

\* unit j is in exactly one bin, the first whose interval holds its key, and
\* a key equal to an interior edge is in the bin that starts at that edge
InItsBin(j) ==
  /\ Cardinality({i \in 1..(Len(bins) - 1) : j \in Assigned(i)}) = 1
  /\ BinsHolding(j) # {}
  /\ table_row[j] = Min(BinsHolding(j))
  /\ \A i \in 2..(Len(bins) - 1) :
       vardf[j].key = bins[i] => table_row[j] = i

\* the cut has been made (so the edges strictly increase)
CutDone == pc \in {"head", "loop", "done"}

InItsBinWhenCovered ==
  CutDone =>
    \A j \in Units :
      (bins[1] <= vardf[j].key /\ vardf[j].key < bins[Len(bins)])
        => InItsBin(j)

\* C4: in recipe 3 the amount of a bin is summed over the units of the bin
\* with a quantity > 0 only, and the average divides it by the weighted
\* count of those units; a unit with a negative quantity adds nothing to
\* the amount and nothing to the count.
C4_PositiveOnly ==
  (recipe = 3 /\ InLoopBody) =>
    LET P == Assigned(passes) \cap Positive
    IN /\ IsScaled(recips, SetSum(P, Weight), COUNT_SCALE_DEN)
       /\ IsScaled(amount, SetSum(P, WeightedQty), AMOUNT_SCALE_DEN)
       /\ (pc = "loop" /\ SetSum(P, Weight) > 0) =>
            /\ avg = FDiv(Rat(SetSum(P, WeightedQty), AMOUNT_SCALE_DEN),
                          Rat(SetSum(P, Weight), COUNT_SCALE_DEN))
            /\ BinLine(passes).cols[2] = avg

\* what recipe 3 does: the count is conditional, the amount is not
CountConditionalAmountNot ==
  (recipe = 3 /\ InLoopBody) =>
    /\ IsScaled(recips, SetSum(Assigned(passes) \cap Positive, Weight),
                COUNT_SCALE_DEN)
    /\ IsScaled(amount, SetSum(Assigned(passes), WeightedQty), AMOUNT_SCALE_DEN)

\* C5: in recipe 4 a line, of a bin or ALL, whose baseline amount is zero
\* reports a not-a-number percentage, whatever the response amount.
C5_ZeroBaselineIsNaN ==
  (recipe = 4 /\ InLoopBody) =>
    /\ (pc = "loop" /\ IsZero(grp_baseline)) =>
         (IsNaN(pct_response) /\ IsNaN(BinLine(passes).cols[3]))
    /\ (pc = "done" /\ IsZero(tot_baseline)) =>
         (IsNaN(pct_response) /\ IsNaN(LastLine.cols[3]))

\* what recipe 4 does with a zero baseline: nan for a zero response, an
\* infinity of the response's sign otherwise
ZeroBaselineIsNaNOrInf ==
  (recipe = 4 /\ pc = "loop" /\ passes >= 1 /\ IsZero(grp_baseline)) =>
    IF IsZero(grp_response) THEN IsNaN(pct_response)
    ELSE IsInf(pct_response) /\ pct_response.n = Sign(grp_response.n)

\* the lines of the bins printed so far, and the ALL line when done
Complete == Len(rows) = HeadLen + (Len(bins) - 1) + 1

\* C6: in recipe 3 every bin whose weighted recipient count is zero gets a
\* not-a-number average on its line, no exception is raised, and the loop
\* goes on to print the lines of the later bins and the ALL line.
C6_ZeroCountIsNaN ==
  (recipe = 3 /\ pc # "cut" /\ BinsIncrease(bins)) =>
    /\ pc \in {"head", "loop", "done"}
    /\ pc = "loop" => (Len(rows) = HeadLen + passes /\ passes <= Len(bins) - 1)
    /\ pc = "done" => (Complete /\ LastLine.label = <<"ALL">>)
    /\ (pc = "loop" /\ passes >= 1 /\ IsZero(recips)) => IsNaN(avg)
    /\ \A i \in 1..passes :
         /\ BinLine(i).label = <<"[", bins[i], ", ", bins[i + 1], ")">>
         /\ IsZero(BinLine(i).cols[1]) => IsNaN(BinLine(i).cols[2])

\* a run of recipe 3 has ended in which a bin with a zero count, and a
\* non-zero amount, is followed by a bin with recipients
C6_Witness ==
  /\ recipe = 3 /\ pc = "done" /\ Complete
  /\ IsZero(BinLine(1).cols[1]) /\ IsNaN(BinLine(1).cols[2])
  /\ \E j \in Assigned(1) : vardf[j].s006 * vardf[j].qty < 0
  /\ FPositive(BinLine(2).cols[1])

\* C7: with no record at all the run ends without an exception: every bin
\* line has a zero count and zero amounts, and the ratio of the ALL line is
\* not-a-number.
C7_EmptyInput ==
  (vardf = <<>> /\ pc # "cut" /\ BinsIncrease(bins)) =>
    /\ pc \in {"head", "loop", "done"}
    /\ pc = "loop" => passes <= Len(bins) - 1
    /\ InLoopBody =>
         /\ IsZero(BinCount) /\ IsZero(BinAmount)
         /\ recipe = 4 => IsZero(grp_response)
         /\ \A i \in 1..passes :
              /\ IsZero(BinLine(i).cols[1])
              /\ recipe = 4 => IsZero(BinLine(i).cols[2])
    /\ pc = "done" =>
         /\ Complete
         /\ IsZero(TotCount) /\ IsZero(TotAmount)
         /\ LastLine.label = <<"ALL">>
         /\ IsZero(LastLine.cols[1])
         /\ IsNaN(LastLine.cols[Len(LastLine.cols)])
         /\ recipe = 3 => IsNaN(avg)
         /\ recipe = 4 => IsNaN(pct_response)

\* a run of recipe 3 on an empty dataframe has printed its ALL line
C7_Witness ==
  /\ vardf = <<>> /\ recipe = 3 /\ pc = "done"
  /\ LastLine.label = <<"ALL">> /\ IsNaN(LastLine.cols[2])

\* the label of the k-th line of the report
ExpectedLabel(k) ==
  IF k > HeadLen + (Len(bins) - 1) THEN <<"ALL">>
  ELSE IF k > HeadLen
       THEN <<"[", bins[k - HeadLen], ", ", bins[k - HeadLen + 1], ")">>
  ELSE IF k = HeadLen
       THEN (IF recipe = 3 THEN <<"AGI Category">> ELSE <<"Earnings Group">>)
  ELSE IF k = 1 THEN <<"">>
  ELSE <<"Response in Charitable Giving by Earnings Group">>

\* C8: the report is the header line (after the title in recipe 4), then
\* one line per declared bin, empty or not, in the order of the edges, then
\* one ALL line, the last: the data lines number the bins plus one.
C8_ReportShape ==
  CutDone =>
    /\ Len(rows) <= HeadLen + (Len(bins) - 1) + 1
    /\ \A k \in 1..Len(rows) : rows[k].label = ExpectedLabel(k)
    /\ pc = "loop" => Len(rows) = HeadLen + passes
    /\ pc = "done" => Complete
    /\ pc = "head" => rows = <<>>

\* a report with three bins, the second one empty, has been printed
C8_Witness ==
  /\ pc = "done" /\ Len(bins) = 4 /\ Complete
  /\ Assigned(2) = {} /\ Assigned(1) # {} /\ Assigned(3) # {}
  /\ LastLine.label = <<"ALL">>

\* the edges are not strictly increasing or do not span every key
Malformed == ~BinsIncrease(bins) \/ ~Covers

UnorderedEdgesRaise ==
  ~BinsIncrease(bins) => (pc \in {"cut", "ValueError"} /\ rows = <<>>)

\* ------------------------------------ the report as a function of its input
Perms(n) ==
  {p \in [1..n -> 1..n] : \A i, j \in 1..n : p[i] = p[j] => i = j}

Permuted(df, p) == [j \in 1..Len(df) |-> df[p[j]]]

GroupIn(df, b, i) == Select(df, [j \in 1..Len(df) |-> Cut(df[j].key, b)], i)

RECURSIVE Total(_)
Total(fs) ==
  IF fs = <<>> THEN PyFloat(0, 1)
  ELSE Accumulate(Total(SubSeq(fs, 1, Len(fs) - 1)), fs[Len(fs)])

BinLabel(b, i) == <<"[", b[i], ", ", b[i + 1], ")">>

Report3(df, b) ==
  LET nb == Len(b) - 1
      r == [i \in 1..nb |-> Recips(GroupIn(df, b, i))]
      a == [i \in 1..nb |-> Amount(GroupIn(df, b, i))]
  IN <<Line(<<"AGI Category">>, <<"Num(#M)", "Avg($K)">>)>>
     \o [i \in 1..nb |-> Line(BinLabel(b, i), <<r[i], Avg(a[i], r[i])>>)]
     \o <<Line(<<"ALL">>, <<Total(r), AllAvg(Total(a), Total(r))>>)>>

Report4(df, b) ==
  LET nb == Len(b) - 1
      f == [i \in 1..nb |-> Funits(GroupIn(df, b, i))]
      r == [i \in 1..nb |-> GrpResponse(GroupIn(df, b, i))]
      a == [i \in 1..nb |-> GrpBaseline(GroupIn(df, b, i))]
  IN << Line(<<"">>, <<>>),
        Line(<<"Response in Charitable Giving by Earnings Group">>, <<>>),
        Line(<<"Earnings Group">>, <<"Num(#M)", "Resp($B)", "Resp(%)">>) >>
     \o [i \in 1..nb |->
           Line(BinLabel(b, i), <<f[i], r[i], PctResponse(r[i], a[i])>>)]
     \o <<Line(<<"ALL">>,
               <<Total(f), Total(r), PctResponse(Total(r), Total(a))>>)>>

Report(r, df, b) == IF r = 3 THEN Report3(df, b) ELSE Report4(df, b)

\* C10: for fixed edges the report does not depend on the order of the
\* records (in exact arithmetic): the lines a run printed are the lines of
\* the report of every permutation of its dataframe, the same order included.
C10_OrderIndependent ==
  pc = "done" =>
    \A p \in Perms(Len(vardf)) :
      rows = Report(recipe, Permuted(vardf, p), bins)

\* a run has ended whose dataframe holds two different units in one bin
C10_Witness ==
  /\ pc = "done" /\ Len(vardf) = 2 /\ vardf[1] # vardf[2]
  /\ table_row[1] = table_row[2] /\ table_row[1] # NA
  /\ vardf[1].s006 * vardf[1].qty # vardf[2].s006 * vardf[2].qty

\* recipe 4's declared edges: two groups, below and above $50,000
EARNINGS_BINS == <<NEG_SENTINEL, 50, POS_SENTINEL>>

\* the place among the declared bins of the interval iv
DeclaredIndex(iv) == CHOOSE i \in 1..(Len(bins) - 1) : Interval(i) = iv

\* quantity_response has been called in the pass the loop is in or ended with
Responded == recipe = 4 /\ pc \in {"loop", "done"} /\ passes >= 1

\* C11: in recipe 4's loop the counter idx is the declared (zero-based)
\* index of the bin whose group is being processed, so the group of bin i
\* gets the response computed with PRICE_ELASTICITY[i] and
\* INCOME_ELASTICITY[i], empty bins included; with the declared edges the
\* first group has -0.1 and the second -0.4, idx stays below the (equal)
\* lengths of the two lists inside the loop and IndexError is never raised.
C11_IdxIsBinIndex ==
  /\ Len(PRICE_ELASTICITY) = Len(INCOME_ELASTICITY)
  /\ (recipe = 4 /\ pc = "loop") => idx = passes
  /\ Responded =>
       LET i == DeclaredIndex(grp_interval)
       IN /\ idx - 1 = i - 1
          /\ 0 <= idx - 1 /\ idx - 1 < Len(PRICE_ELASTICITY)
          /\ price_elasticity = PRICE_ELASTICITY[i]
          /\ income_elasticity = INCOME_ELASTICITY[i]
          /\ rows[Len(rows) - (IF pc = "done" THEN 1 ELSE 0)].label
               = GLabel(i)
  /\ (recipe = 4 /\ bins = EARNINGS_BINS) =>
       /\ pc # "IndexError"
       /\ (pc = "loop" /\ passes < Len(GroupKeys)) =>
            InRange(PRICE_ELASTICITY, idx) /\ InRange(INCOME_ELASTICITY, idx)
       /\ (Responded /\ grp_interval = <<NEG_SENTINEL, 50>>) =>
            price_elasticity = PyFloat(-1, 10)
       /\ (Responded /\ grp_interval = <<50, POS_SENTINEL>>) =>
            price_elasticity = PyFloat(-4, 10)

\* recipe 4 has ended on its declared edges with every unit at or above
\* $50,000: the first group was empty and the second got -0.4
C11_Witness ==
  /\ recipe = 4 /\ bins = EARNINGS_BINS /\ pc = "done"
  /\ Len(vardf) >= 1
  /\ \A j \in 1..Len(vardf) : table_row[j] = 2
  /\ grp_interval = <<50, POS_SENTINEL>>
  /\ price_elasticity = PyFloat(-4, 10)
  /\ idx = Len(PRICE_ELASTICITY)

====
